---- MODULE Spec2Model ----
(***************************************************************************)
(* Model of python/crawl_worker.py: the line-delimited JSON-RPC worker     *)
(* (main, process_request, fetch_headless, parse_python_ast).              *)
(*                                                                         *)
(* JSON values are written as their JSON text ("null", "7"); a dict is a   *)
(* record whose missing keys hold Absent.  An exception message is a       *)
(* sequence of text fragments (the pieces of the f-string that builds it). *)
(***************************************************************************)
EXTENDS Integers, Sequences, FiniteSets, TLC

\* Number of lines the environment feeds to stdin before end-of-stream.
MaxLines == 2

None == "null"
Absent == "<absent>"

----------------------------------------------------------------------------
(* Inputs: the lines of stdin                                              *)

Ids == {Absent, "7"}
Methods == {Absent, "crawl", "fetch_headless", "parse_python", "unknown_op"}

ValidUrl == "http://a/"
ValidCode == "def f(): pass"
BrokenCode == "def f(:"

\* Sources carried by parse_python requests (in addition to ValidCode and BrokenCode)
NestedCode == "def outer(x):\n    def inner():\n        pass\n    return inner(x)\nclass K:\n    def m(self):\n        pass\n    class Inner:\n        def deep(self):\n            pass\n"
MixedCode == "x = make()\nif x:\n    def cond():\n        pass\nasync def _h():\n    pass\nclass _P:\n    async def _m(self):\n        pass\ndef last():\n    pass\n"
CallsCode == "def g():\n    foo()\n    obj.bar()\n"
NestedCallsCode == "def n():\n    a(b())\n    c()\n"
DecoratedCode == "@app.route()\ndef h():\n    run()\n"
SignatureCode == "def s(a, b: int) -> str:\n    pass\n"
StarArgsCode == "def v(a, *args, k: int, **kw):\n    pass\n"
PosOnlyCode == "def p(x, /, y):\n    pass\n"
ImportsCode == "from pkg.sub import a as b, c\nimport os\nimport numpy as np\ndef f():\n    import json\n"
RelativeImportCode == "from . import x\n"
NoDeclCode == "x = 1\n"
BrokenCode2 == "x = 1\ndef f(:\n"
\* a code member that is a JSON number instead of a string
NumberCode == "<number>"


\* params: key missing from the request, a JSON value that is not an object
\* (null), or an object with optional url / code members.
NoParams == [kind |-> "absent", url |-> Absent, code |-> Absent]
NullParams == [kind |-> "null", url |-> Absent, code |-> Absent]
DictParams(u, c) == [kind |-> "dict", url |-> u, code |-> c]

UrlParams == {NoParams, NullParams, DictParams(Absent, Absent),
              DictParams("", Absent), DictParams(ValidUrl, Absent)}
CodeParams == {NoParams, NullParams, DictParams(Absent, Absent),
               DictParams(Absent, ""), DictParams(Absent, ValidCode),
               DictParams(Absent, BrokenCode)}

ParamsOf(m) ==
    CASE m \in {"crawl", "fetch_headless"} -> UrlParams
      [] m = "parse_python" -> CodeParams
      [] OTHER -> {NoParams}

\* text is the line as json.loads sees it: not JSON at all, blank, a JSON
\* value that is not an object, or a JSON object.
Garbage == [text |-> "garbage", id |-> Absent, method |-> Absent, params |-> NoParams]
Blank == [text |-> "blank", id |-> Absent, method |-> Absent, params |-> NoParams]
Scalar == [text |-> "scalar", id |-> Absent, method |-> Absent, params |-> NoParams]
Object(i, m, p) == [text |-> "object", id |-> i, method |-> m, params |-> p]

Lines == {Garbage, Blank, Scalar}
         \cup UNION {{Object(i, m, p) : i \in Ids, p \in ParamsOf(m)} : m \in Methods}

----------------------------------------------------------------------------
(* The Rendering Engine's answers to crawler.arun                          *)

StrLink(h) == [t |-> "str", href |-> h]
DictLink(h) == [t |-> "dict", href |-> h]
OtherLink == [t |-> "other", href |-> Absent]

NoLinks == [isdict |-> FALSE, internal |-> << >>, external |-> << >>]
LinkDict(int, ext) == [isdict |-> TRUE, internal |-> int, external |-> ext]

EngineRaises(text) ==
    [raises |-> TRUE, exc |-> text, success |-> FALSE, error_message |-> None,
     html |-> None, markdown |-> None, cleaned_html |-> None,
     metadata |-> [isdict |-> FALSE, title |-> Absent], links |-> NoLinks]
EngineFails(text) ==
    [raises |-> FALSE, exc |-> None, success |-> FALSE, error_message |-> text,
     html |-> None, markdown |-> None, cleaned_html |-> None,
     metadata |-> [isdict |-> FALSE, title |-> Absent], links |-> NoLinks]
EnginePage(h, md, cl, meta, lk) ==
    [raises |-> FALSE, exc |-> None, success |-> TRUE, error_message |-> None,
     html |-> h, markdown |-> md, cleaned_html |-> cl,
     metadata |-> meta, links |-> lk]

EngineOutcomes ==
    {EngineRaises("net::ERR_TIMED_OUT"),
     EngineFails("HTTP-500"),
     EnginePage("<html>", "# md", "<p>", [isdict |-> TRUE, title |-> "T"],
                LinkDict(<<StrLink("/a"), OtherLink>>,
                         <<DictLink("http://x/"), DictLink(Absent)>>)),
     EnginePage(None, "", "<p>", [isdict |-> FALSE, title |-> Absent], NoLinks)}

\* Placeholder for a line the engine was not (yet) asked about.
NoAnswer == EngineRaises(Absent)

----------------------------------------------------------------------------
(* Python helpers                                                          *)

\* d.get(key) / d.get(key, default) on a member that may be missing
dict_get(member, default) == IF member = Absent THEN default ELSE member

\* truthiness test of `not x` / `x or y` on None and strings
Falsy(x) == x \in {None, ""}
PyOr(x, y) == IF Falsy(x) THEN y ELSE x

Contains(msg, word) == \E i \in 1..Len(msg) : msg[i] = word

\* exception texts, one sequence element per word
JSONDecodeError == <<"Expecting", "value:", "line", "1", "column", "1", "(char", "0)">>
AttributeErrorOf(type) == <<type, "object", "has", "no", "attribute", "'get'">>
UrlRequired == <<"URL", "parameter", "is", "required">>
CodeRequired == <<"code", "parameter", "is", "required">>
CrawlFailedNoText(text) == <<"Crawl", "failed">>
CrawlFailed(text) == <<"Crawl", "failed:", text>>

Raise(m) == [raised |-> TRUE, msg |-> m, value |-> None]
Return(v) == [raised |-> FALSE, msg |-> << >>, value |-> v]

\* json.loads(line.strip())
json_loads(line) ==
    [ok |-> line.text \in {"scalar", "object"},
     value |-> [isdict |-> line.text = "object", id |-> line.id,
                method |-> line.method, params |-> line.params]]

\* the name `request` before the first successful json.loads
Unbound == [isdict |-> FALSE, id |-> "<unbound>", method |-> Absent, params |-> NoParams]

SuccessResponse(i, r) == [jsonrpc |-> "2.0", id |-> i, result |-> r]
ErrorResponseInternalError(i, m) ==
    [jsonrpc |-> "2.0", id |-> i, error |-> [code |-> -32603, message |-> m]]
ErrorResponse(i, m) == [jsonrpc |-> "2.0", id |-> i, error |-> [code |-> -1, message |-> m]]

IsSuccess(r) == "result" \in DOMAIN r /\ "error" \notin DOMAIN r
IsError(r) == "error" \in DOMAIN r /\ "result" \notin DOMAIN r

----------------------------------------------------------------------------
(* Handlers                                                                *)

\* request.get('id')
request_id(request) == dict_get(request.id, None)

\* variant: `if url is None` in place of `if not url`
url_param_is_none(request) ==
    IF request.params.kind = "null" THEN Raise(AttributeErrorOf("'NoneType'"))
    ELSE IF dict_get(request.params.url, None) = None THEN Raise(UrlRequired)
    ELSE Return(request.params.url)

\* params = request.get('params', {}); url = params.get('url'); if not url: raise
url_param(request) ==
    IF request.params.kind = "null" THEN Raise(AttributeErrorOf("'NoneType'"))
    ELSE IF Falsy(dict_get(request.params.url, None)) THEN Raise(UrlRequired)
    ELSE Return(request.params.url)

\* params = request.get('params', {}); code = params.get('code'); if not code: raise
code_param(request) ==
    IF request.params.kind = "null" THEN Raise(AttributeErrorOf("'NoneType'"))
    ELSE IF Falsy(dict_get(request.params.code, None)) THEN Raise(CodeRequired)
    ELSE Return(request.params.code)

\* the href strings of a list of link objects; other shapes are dropped
hrefs(links) ==
    LET kept == SelectSeq(links, LAMBDA l : l.t \in {"dict", "str"})
    IN [i \in 1..Len(kept) |->
           IF kept[i].t = "dict" THEN dict_get(kept[i].href, "") ELSE kept[i].href]

crawl_links(links) ==
    IF links.isdict THEN hrefs(links.internal \o links.external) ELSE << >>

crawl_title(metadata) ==
    IF metadata.isdict THEN dict_get(metadata.title, "") ELSE ""

\* process_request from the return of crawler.arun on: the line it prints
process_request(request, url, answer) ==
    IF answer.raises THEN ErrorResponse(request_id(request), <<answer.exc>>)
    ELSE IF ~answer.success
    THEN ErrorResponse(request_id(request), CrawlFailed(answer.error_message))
    ELSE SuccessResponse(request_id(request),
            [pages |-> << [url |-> url,
                           title |-> crawl_title(answer.metadata),
                           content |-> PyOr(answer.markdown, PyOr(answer.cleaned_html, "")),
                           html |-> PyOr(answer.html, ""),
                           links |-> crawl_links(answer.links),
                           crawledAt |-> ""] >>])

\* variant: the internal links alone
fetch_links_internal(links) ==
    IF links.isdict THEN links.internal ELSE << >>

fetch_links(links) ==
    IF links.isdict THEN links.internal \o links.external ELSE << >>

\* fetch_headless from the return of crawler.arun on
fetch_headless(url, answer) ==
    IF answer.raises THEN Raise(<<answer.exc>>)
    ELSE IF ~answer.success THEN Raise(CrawlFailed(answer.error_message))
    ELSE Return([html |-> PyOr(answer.html, ""),
                 markdown |-> PyOr(answer.markdown, PyOr(answer.cleaned_html, "")),
                 links |-> fetch_links(answer.links)])

----------------------------------------------------------------------------
(* Syntax trees.  A node is a record: kind is the ast class, kids the child  *)
(* nodes in the order of ast.iter_child_nodes (expression contexts left      *)
(* out), body the range of kids that is the node's body; annotations are     *)
(* held as their ast.unparse text.                                           *)

\* ast.parse(ValidCode)
ValidCodeTree ==
    [kind |-> "Module", body |-> <<1,1>>, kids |-> <<[kind |-> "FunctionDef", name |-> "f",
      lineno |-> 1, end_lineno |-> 1, args |-> [posonlyargs |-> <<>>, args |-> <<>>,
      vararg |-> <<>>, kwonlyargs |-> <<>>, kwarg |-> <<>>], returns |-> None,
      body |-> <<2,2>>, kids |-> <<[kind |-> "arguments", kids |-> <<>>], [kind |-> "Pass",
      kids |-> <<>>]>>]>>]

\* ast.parse(NestedCode)
NestedCodeTree ==
    [kind |-> "Module", body |-> <<1,2>>, kids |-> <<[kind |-> "FunctionDef", name |-> "outer",
      lineno |-> 1, end_lineno |-> 4, args |-> [posonlyargs |-> <<>>, args |-> <<[arg |-> "x",
      annotation |-> None]>>, vararg |-> <<>>, kwonlyargs |-> <<>>, kwarg |-> <<>>],
      returns |-> None, body |-> <<2,3>>, kids |-> <<[kind |-> "arguments",
      kids |-> <<[kind |-> "arg", kids |-> <<>>]>>], [kind |-> "FunctionDef", name |-> "inner",
      lineno |-> 2, end_lineno |-> 3, args |-> [posonlyargs |-> <<>>, args |-> <<>>,
      vararg |-> <<>>, kwonlyargs |-> <<>>, kwarg |-> <<>>], returns |-> None,
      body |-> <<2,2>>, kids |-> <<[kind |-> "arguments", kids |-> <<>>], [kind |-> "Pass",
      kids |-> <<>>]>>], [kind |-> "Return", kids |-> <<[kind |-> "Call",
      kids |-> <<[kind |-> "Name", id |-> "inner", kids |-> <<>>], [kind |-> "Name",
      id |-> "x", kids |-> <<>>]>>]>>]>>], [kind |-> "ClassDef", name |-> "K", lineno |-> 5,
      end_lineno |-> 10, body |-> <<1,2>>, kids |-> <<[kind |-> "FunctionDef", name |-> "m",
      lineno |-> 6, end_lineno |-> 7, args |-> [posonlyargs |-> <<>>,
      args |-> <<[arg |-> "self", annotation |-> None]>>, vararg |-> <<>>, kwonlyargs |-> <<>>,
      kwarg |-> <<>>], returns |-> None, body |-> <<2,2>>, kids |-> <<[kind |-> "arguments",
      kids |-> <<[kind |-> "arg", kids |-> <<>>]>>], [kind |-> "Pass", kids |-> <<>>]>>],
      [kind |-> "ClassDef", name |-> "Inner", lineno |-> 8, end_lineno |-> 10,
      body |-> <<1,1>>, kids |-> <<[kind |-> "FunctionDef", name |-> "deep", lineno |-> 9,
      end_lineno |-> 10, args |-> [posonlyargs |-> <<>>, args |-> <<[arg |-> "self",
      annotation |-> None]>>, vararg |-> <<>>, kwonlyargs |-> <<>>, kwarg |-> <<>>],
      returns |-> None, body |-> <<2,2>>, kids |-> <<[kind |-> "arguments",
      kids |-> <<[kind |-> "arg", kids |-> <<>>]>>], [kind |-> "Pass",
      kids |-> <<>>]>>]>>]>>]>>]

\* ast.parse(MixedCode)
MixedCodeTree ==
    [kind |-> "Module", body |-> <<1,5>>, kids |-> <<[kind |-> "Assign",
      kids |-> <<[kind |-> "Name", id |-> "x", kids |-> <<>>], [kind |-> "Call",
      kids |-> <<[kind |-> "Name", id |-> "make", kids |-> <<>>]>>]>>], [kind |-> "If",
      kids |-> <<[kind |-> "Name", id |-> "x", kids |-> <<>>], [kind |-> "FunctionDef",
      name |-> "cond", lineno |-> 3, end_lineno |-> 4, args |-> [posonlyargs |-> <<>>,
      args |-> <<>>, vararg |-> <<>>, kwonlyargs |-> <<>>, kwarg |-> <<>>], returns |-> None,
      body |-> <<2,2>>, kids |-> <<[kind |-> "arguments", kids |-> <<>>], [kind |-> "Pass",
      kids |-> <<>>]>>]>>], [kind |-> "AsyncFunctionDef", name |-> "_h", lineno |-> 5,
      end_lineno |-> 6, args |-> [posonlyargs |-> <<>>, args |-> <<>>, vararg |-> <<>>,
      kwonlyargs |-> <<>>, kwarg |-> <<>>], returns |-> None, body |-> <<2,2>>,
      kids |-> <<[kind |-> "arguments", kids |-> <<>>], [kind |-> "Pass", kids |-> <<>>]>>],
      [kind |-> "ClassDef", name |-> "_P", lineno |-> 7, end_lineno |-> 9, body |-> <<1,1>>,
      kids |-> <<[kind |-> "AsyncFunctionDef", name |-> "_m", lineno |-> 8, end_lineno |-> 9,
      args |-> [posonlyargs |-> <<>>, args |-> <<[arg |-> "self", annotation |-> None]>>,
      vararg |-> <<>>, kwonlyargs |-> <<>>, kwarg |-> <<>>], returns |-> None,
      body |-> <<2,2>>, kids |-> <<[kind |-> "arguments", kids |-> <<[kind |-> "arg",
      kids |-> <<>>]>>], [kind |-> "Pass", kids |-> <<>>]>>]>>], [kind |-> "FunctionDef",
      name |-> "last", lineno |-> 10, end_lineno |-> 11, args |-> [posonlyargs |-> <<>>,
      args |-> <<>>, vararg |-> <<>>, kwonlyargs |-> <<>>, kwarg |-> <<>>], returns |-> None,
      body |-> <<2,2>>, kids |-> <<[kind |-> "arguments", kids |-> <<>>], [kind |-> "Pass",
      kids |-> <<>>]>>]>>]

\* ast.parse(CallsCode)
CallsCodeTree ==
    [kind |-> "Module", body |-> <<1,1>>, kids |-> <<[kind |-> "FunctionDef", name |-> "g",
      lineno |-> 1, end_lineno |-> 3, args |-> [posonlyargs |-> <<>>, args |-> <<>>,
      vararg |-> <<>>, kwonlyargs |-> <<>>, kwarg |-> <<>>], returns |-> None,
      body |-> <<2,3>>, kids |-> <<[kind |-> "arguments", kids |-> <<>>], [kind |-> "Expr",
      kids |-> <<[kind |-> "Call", kids |-> <<[kind |-> "Name", id |-> "foo",
      kids |-> <<>>]>>]>>], [kind |-> "Expr", kids |-> <<[kind |-> "Call",
      kids |-> <<[kind |-> "Attribute", attr |-> "bar", kids |-> <<[kind |-> "Name",
      id |-> "obj", kids |-> <<>>]>>]>>]>>]>>]>>]

\* ast.parse(NestedCallsCode)
NestedCallsCodeTree ==
    [kind |-> "Module", body |-> <<1,1>>, kids |-> <<[kind |-> "FunctionDef", name |-> "n",
      lineno |-> 1, end_lineno |-> 3, args |-> [posonlyargs |-> <<>>, args |-> <<>>,
      vararg |-> <<>>, kwonlyargs |-> <<>>, kwarg |-> <<>>], returns |-> None,
      body |-> <<2,3>>, kids |-> <<[kind |-> "arguments", kids |-> <<>>], [kind |-> "Expr",
      kids |-> <<[kind |-> "Call", kids |-> <<[kind |-> "Name", id |-> "a", kids |-> <<>>],
      [kind |-> "Call", kids |-> <<[kind |-> "Name", id |-> "b", kids |-> <<>>]>>]>>]>>],
      [kind |-> "Expr", kids |-> <<[kind |-> "Call", kids |-> <<[kind |-> "Name", id |-> "c",
      kids |-> <<>>]>>]>>]>>]>>]

\* ast.parse(DecoratedCode)
DecoratedCodeTree ==
    [kind |-> "Module", body |-> <<1,1>>, kids |-> <<[kind |-> "FunctionDef", name |-> "h",
      lineno |-> 2, end_lineno |-> 3, args |-> [posonlyargs |-> <<>>, args |-> <<>>,
      vararg |-> <<>>, kwonlyargs |-> <<>>, kwarg |-> <<>>], returns |-> None,
      body |-> <<2,2>>, kids |-> <<[kind |-> "arguments", kids |-> <<>>], [kind |-> "Expr",
      kids |-> <<[kind |-> "Call", kids |-> <<[kind |-> "Name", id |-> "run",
      kids |-> <<>>]>>]>>], [kind |-> "Call", kids |-> <<[kind |-> "Attribute",
      attr |-> "route", kids |-> <<[kind |-> "Name", id |-> "app", kids |-> <<>>]>>]>>]>>]>>]

\* ast.parse(SignatureCode)
SignatureCodeTree ==
    [kind |-> "Module", body |-> <<1,1>>, kids |-> <<[kind |-> "FunctionDef", name |-> "s",
      lineno |-> 1, end_lineno |-> 2, args |-> [posonlyargs |-> <<>>, args |-> <<[arg |-> "a",
      annotation |-> None], [arg |-> "b", annotation |-> "int"]>>, vararg |-> <<>>,
      kwonlyargs |-> <<>>, kwarg |-> <<>>], returns |-> "str", body |-> <<2,2>>,
      kids |-> <<[kind |-> "arguments", kids |-> <<[kind |-> "arg", kids |-> <<>>],
      [kind |-> "arg", kids |-> <<[kind |-> "Name", id |-> "int", kids |-> <<>>]>>]>>],
      [kind |-> "Pass", kids |-> <<>>], [kind |-> "Name", id |-> "str", kids |-> <<>>]>>]>>]

\* ast.parse(StarArgsCode)
StarArgsCodeTree ==
    [kind |-> "Module", body |-> <<1,1>>, kids |-> <<[kind |-> "FunctionDef", name |-> "v",
      lineno |-> 1, end_lineno |-> 2, args |-> [posonlyargs |-> <<>>, args |-> <<[arg |-> "a",
      annotation |-> None]>>, vararg |-> <<[arg |-> "args", annotation |-> None]>>,
      kwonlyargs |-> <<[arg |-> "k", annotation |-> "int"]>>, kwarg |-> <<[arg |-> "kw",
      annotation |-> None]>>], returns |-> None, body |-> <<2,2>>,
      kids |-> <<[kind |-> "arguments", kids |-> <<[kind |-> "arg", kids |-> <<>>],
      [kind |-> "arg", kids |-> <<>>], [kind |-> "arg", kids |-> <<[kind |-> "Name",
      id |-> "int", kids |-> <<>>]>>], [kind |-> "arg", kids |-> <<>>]>>], [kind |-> "Pass",
      kids |-> <<>>]>>]>>]

\* ast.parse(PosOnlyCode)
PosOnlyCodeTree ==
    [kind |-> "Module", body |-> <<1,1>>, kids |-> <<[kind |-> "FunctionDef", name |-> "p",
      lineno |-> 1, end_lineno |-> 2, args |-> [posonlyargs |-> <<[arg |-> "x",
      annotation |-> None]>>, args |-> <<[arg |-> "y", annotation |-> None]>>, vararg |-> <<>>,
      kwonlyargs |-> <<>>, kwarg |-> <<>>], returns |-> None, body |-> <<2,2>>,
      kids |-> <<[kind |-> "arguments", kids |-> <<[kind |-> "arg", kids |-> <<>>],
      [kind |-> "arg", kids |-> <<>>]>>], [kind |-> "Pass", kids |-> <<>>]>>]>>]

\* ast.parse(ImportsCode)
ImportsCodeTree ==
    [kind |-> "Module", body |-> <<1,4>>, kids |-> <<[kind |-> "ImportFrom",
      module |-> "pkg.sub", level |-> 0, names |-> <<[name |-> "a", asname |-> "b"],
      [name |-> "c", asname |-> None]>>, kids |-> <<[kind |-> "alias", kids |-> <<>>],
      [kind |-> "alias", kids |-> <<>>]>>], [kind |-> "Import", names |-> <<[name |-> "os",
      asname |-> None]>>, kids |-> <<[kind |-> "alias", kids |-> <<>>]>>], [kind |-> "Import",
      names |-> <<[name |-> "numpy", asname |-> "np"]>>, kids |-> <<[kind |-> "alias",
      kids |-> <<>>]>>], [kind |-> "FunctionDef", name |-> "f", lineno |-> 4, end_lineno |-> 5,
      args |-> [posonlyargs |-> <<>>, args |-> <<>>, vararg |-> <<>>, kwonlyargs |-> <<>>,
      kwarg |-> <<>>], returns |-> None, body |-> <<2,2>>, kids |-> <<[kind |-> "arguments",
      kids |-> <<>>], [kind |-> "Import", names |-> <<[name |-> "json", asname |-> None]>>,
      kids |-> <<[kind |-> "alias", kids |-> <<>>]>>]>>]>>]

\* ast.parse(RelativeImportCode)
RelativeImportCodeTree ==
    [kind |-> "Module", body |-> <<1,1>>, kids |-> <<[kind |-> "ImportFrom", module |-> None,
      level |-> 1, names |-> <<[name |-> "x", asname |-> None]>>, kids |-> <<[kind |-> "alias",
      kids |-> <<>>]>>]>>]

\* ast.parse(NoDeclCode)
NoDeclCodeTree ==
    [kind |-> "Module", body |-> <<1,1>>, kids |-> <<[kind |-> "Assign",
      kids |-> <<[kind |-> "Name", id |-> "x", kids |-> <<>>], [kind |-> "Constant",
      kids |-> <<>>]>>]>>]

Parsed(t) == [exc |-> "none", lineno |-> 0, msg |-> << >>, tree |-> t]
SyntaxError(n, m) == [exc |-> "SyntaxError", lineno |-> n, msg |-> m, tree |-> NoDeclCodeTree]
TypeError(m) == [exc |-> "TypeError", lineno |-> 0, msg |-> m, tree |-> NoDeclCodeTree]

\* ast.parse on the sources the requests carry
ast_parse(code) ==
    CASE code = ValidCode -> Parsed(ValidCodeTree)
      [] code = NestedCode -> Parsed(NestedCodeTree)
      [] code = MixedCode -> Parsed(MixedCodeTree)
      [] code = CallsCode -> Parsed(CallsCodeTree)
      [] code = NestedCallsCode -> Parsed(NestedCallsCodeTree)
      [] code = DecoratedCode -> Parsed(DecoratedCodeTree)
      [] code = SignatureCode -> Parsed(SignatureCodeTree)
      [] code = StarArgsCode -> Parsed(StarArgsCodeTree)
      [] code = PosOnlyCode -> Parsed(PosOnlyCodeTree)
      [] code = ImportsCode -> Parsed(ImportsCodeTree)
      [] code = RelativeImportCode -> Parsed(RelativeImportCodeTree)
      [] code = NoDeclCode -> Parsed(NoDeclCodeTree)
      [] code = BrokenCode -> SyntaxError(1, <<"invalid", "syntax">>)
      [] code = BrokenCode2 -> SyntaxError(2, <<"invalid", "syntax">>)
      [] code = NumberCode ->
             TypeError(<<"compile()", "arg", "1", "must", "be", "a", "string,",
                         "bytes", "or", "AST", "object">>)

Body(node) == SubSeq(node.kids, node.body[1], node.body[2])

IsFunctionDef(node) == node.kind \in {"FunctionDef", "AsyncFunctionDef"}
IsClassDef(node) == node.kind = "ClassDef"

\* ast.walk: breadth-first, a queue of nodes still to yield
RECURSIVE walk_queue(_)
walk_queue(todo) ==
    IF todo = << >> THEN << >>
    ELSE <<Head(todo)>> \o walk_queue(Tail(todo) \o Head(todo).kids)

ast_walk(node) == walk_queue(<<node>>)

\* first character of the identifiers that name a function or class
FirstChar(name) == IF name \in {"_h", "_P", "_m"} THEN "_" ELSE "a"

\* variant: every function or class counts as exported
is_exported_always(node) ==
    IsFunctionDef(node) \/ IsClassDef(node)

is_exported(node) ==
    IF IsFunctionDef(node) \/ IsClassDef(node) THEN FirstChar(node.name) # "_" ELSE FALSE

RECURSIVE join(_, _)
join(strs, sep) ==
    IF strs = << >> THEN ""
    ELSE IF Len(strs) = 1 THEN strs[1]
    ELSE strs[1] \o sep \o join(Tail(strs), sep)

arg_str(a) == IF a.annotation # None THEN a.arg \o ": " \o a.annotation ELSE a.arg

\* the parameters get_signature renders: node.args.args
signature_args(args) == args.args

get_signature(node) ==
    LET params == signature_args(node.args)
        args_list == [i \in 1..Len(params) |-> arg_str(params[i])]
        return_annotation == IF node.returns # None THEN " -> " \o node.returns ELSE ""
    IN node.name \o "(" \o join(args_list, ", ") \o ")" \o return_annotation

\* the entries one import statement adds
import_entries(node) ==
    IF node.kind = "Import"
    THEN [i \in 1..Len(node.names) |->
            [source |-> node.names[i].name,
             imported |-> IF node.names[i].asname # None THEN node.names[i].asname
                          ELSE node.names[i].name]]
    ELSE IF node.kind = "ImportFrom"
    THEN [i \in 1..Len(node.names) |->
            [source |-> IF node.module # None THEN node.module ELSE "",
             imported |-> node.names[i].name,
             alias |-> node.names[i].asname]]
    ELSE << >>

RECURSIVE concat_imports(_)
concat_imports(nodes) ==
    IF nodes = << >> THEN << >>
    ELSE import_entries(Head(nodes)) \o concat_imports(Tail(nodes))

\* variant: the top-level statements only
import_scope_top(tree) == Body(tree)

\* the nodes extract_imports looks at: ast.walk(tree)
import_scope(tree) == ast_walk(tree)

extract_imports(tree) == concat_imports(import_scope(tree))

\* the name a call contributes, if any
callee(node) ==
    IF node.kind # "Call" THEN << >>
    ELSE IF node.kids[1].kind = "Name" THEN <<node.kids[1].id>>
    ELSE IF node.kids[1].kind = "Attribute" THEN <<node.kids[1].attr>>
    ELSE << >>

RECURSIVE concat_callees(_)
concat_callees(nodes) ==
    IF nodes = << >> THEN << >>
    ELSE callee(Head(nodes)) \o concat_callees(Tail(nodes))

extract_calls(node) == concat_callees(ast_walk(node))

end_line(node) == IF node.end_lineno # 0 THEN node.end_lineno ELSE node.lineno

function_node(node) ==
    [type |-> "function", name |-> node.name, exported |-> is_exported(node),
     startLine |-> node.lineno, endLine |-> end_line(node),
     async |-> node.kind = "AsyncFunctionDef",
     signature |-> get_signature(node), calls |-> extract_calls(node)]

method_node(item) ==
    [name |-> item.name, async |-> item.kind = "AsyncFunctionDef",
     signature |-> get_signature(item),
     startLine |-> item.lineno, endLine |-> end_line(item),
     calls |-> extract_calls(item)]

class_methods(node) ==
    LET items == SelectSeq(Body(node), IsFunctionDef)
    IN [i \in 1..Len(items) |-> method_node(items[i])]

class_node(node) ==
    [type |-> "class", name |-> node.name, exported |-> is_exported(node),
     startLine |-> node.lineno, endLine |-> end_line(node),
     methods |-> class_methods(node)]

\* variant: every statement of the tree, nested ones included
statements_walk(tree) == Tail(ast_walk(tree))

\* the statements parse_python_ast turns into nodes: tree.body
statements(tree) == Body(tree)

code_nodes(tree) ==
    LET decls == SelectSeq(statements(tree), LAMBDA n : IsFunctionDef(n) \/ IsClassDef(n))
    IN [i \in 1..Len(decls) |->
           IF IsClassDef(decls[i]) THEN class_node(decls[i]) ELSE function_node(decls[i])]

SyntaxErrorText(parsed) ==
    <<"Python", "syntax", "error", "at", "line", ToString(parsed.lineno) \o ":">> \o parsed.msg
FailedToParse(msg) == <<"Failed", "to", "parse", "Python", "AST:">> \o msg

\* variant: the syntax failure is caught again by the generic except clause
parse_python_ast_rewrapped(code) ==
    LET parsed == ast_parse(code)
    IN IF parsed.exc = "SyntaxError" THEN Raise(FailedToParse(SyntaxErrorText(parsed)))
       ELSE IF parsed.exc # "none" THEN Raise(FailedToParse(parsed.msg))
       ELSE Return([nodes |-> code_nodes(parsed.tree), imports |-> extract_imports(parsed.tree)])

parse_python_ast(code) ==
    LET parsed == ast_parse(code)
    IN IF parsed.exc = "SyntaxError" THEN Raise(SyntaxErrorText(parsed))
       ELSE IF parsed.exc # "none" THEN Raise(FailedToParse(parsed.msg))
       ELSE Return([nodes |-> code_nodes(parsed.tree), imports |-> extract_imports(parsed.tree)])

\* variant: the handler's except clause answers with a null id
respond_null_id(request, outcome) ==
    IF outcome.raised THEN ErrorResponse(None, outcome.msg)
    ELSE SuccessResponse(request_id(request), outcome.value)

\* the try/except around a handler in main: one line either way
respond(request, outcome) ==
    IF outcome.raised THEN ErrorResponse(request_id(request), outcome.msg)
    ELSE SuccessResponse(request_id(request), outcome.value)

\* id of the response written by the outermost except clause of main
outer_id(request) == IF request.isdict THEN request_id(request) ELSE None

----------------------------------------------------------------------------
(* State                                                                   *)

VARIABLES
    pc,        \* "start", "loop", "done" (end-of-stream), "crashed" (fault left main)
    lines,     \* the lines read from stdin so far
    request,   \* main's local variable `request`
    pending,   \* suspended handler frames, each awaiting crawler.arun
    stdout,    \* the lines printed
    origin,    \* origin[i]: number of the input line whose handling printed stdout[i]
    trace,     \* trace[k]: engine and parser invocations made for input line k
    acquired,  \* AsyncWebCrawler sessions entered
    released   \* AsyncWebCrawler sessions exited

vars == <<pc, lines, request, pending, stdout, origin, trace, acquired, released>>

Init ==
    /\ pc = "start"
    /\ lines = << >>
    /\ request = Unbound
    /\ pending = << >>
    /\ stdout = << >>
    /\ origin = << >>
    /\ trace = << >>
    /\ acquired = 0
    /\ released = 0

NoCalls == [arun |-> 0, parse |-> 0, answer |-> NoAnswer]

Write(response, k) ==
    /\ stdout' = Append(stdout, response)
    /\ origin' = Append(origin, k)

\* variant: the handler is started as a task and the loop goes on reading
LoopRunsDetached == pc = "loop"

\* `await handler(...)`: the loop does not run while a handler is suspended
LoopRuns == pc = "loop" /\ pending = << >>

\* async with AsyncWebCrawler(verbose=False) as crawler:
Start ==
    /\ pc = "start"
    /\ pc' = "loop"
    /\ acquired' = acquired + 1
    /\ UNCHANGED <<lines, request, pending, stdout, origin, trace, released>>

\* for line in sys.stdin: exhausted; the async with block exits
EndOfStream ==
    /\ LoopRuns
    /\ pc' = "done"
    /\ released' = released + 1
    /\ UNCHANGED <<lines, request, pending, stdout, origin, trace, acquired>>

\* The line is read and handed to json.loads
Reads(line) ==
    /\ LoopRuns
    /\ Len(lines) < MaxLines
    /\ lines' = Append(lines, line)

RemoveAt(seq, i) == SubSeq(seq, 1, i - 1) \o SubSeq(seq, i + 1, Len(seq))

\* json.loads raises: `request` keeps whatever an earlier line bound it to, and
\* the outer except clause reads it.  While it is still unbound that read
\* raises UnboundLocalError, which leaves the loop, the async with and main.
ReadUndecodable(line) ==
    /\ Reads(line)
    /\ ~json_loads(line).ok
    /\ trace' = Append(trace, NoCalls)
    /\ IF request = Unbound
       THEN /\ pc' = "crashed"
            /\ released' = released + 1
            /\ UNCHANGED <<stdout, origin>>
       ELSE /\ Write(ErrorResponse(outer_id(request), JSONDecodeError), Len(lines) + 1)
            /\ UNCHANGED <<pc, released>>
    /\ UNCHANGED <<request, pending, acquired>>

\* variant: the except clause answers with the id of the request bound before
ReadNonObjectStaleRequest(line) ==
    /\ Reads(line)
    /\ json_loads(line).ok
    /\ ~json_loads(line).value.isdict
    /\ request' = json_loads(line).value
    /\ trace' = Append(trace, NoCalls)
    /\ Write(ErrorResponse(outer_id(request), AttributeErrorOf("'int'")), Len(lines) + 1)
    /\ UNCHANGED <<pc, pending, acquired, released>>

\* json.loads returns a value without .get: AttributeError at request.get('method')
ReadNonObject(line) ==
    /\ Reads(line)
    /\ json_loads(line).ok
    /\ ~json_loads(line).value.isdict
    /\ request' = json_loads(line).value
    /\ trace' = Append(trace, NoCalls)
    /\ Write(ErrorResponse(outer_id(request'), AttributeErrorOf("'int'")), Len(lines) + 1)
    /\ UNCHANGED <<pc, pending, acquired, released>>

Decodes(line, method) ==
    /\ Reads(line)
    /\ json_loads(line).ok
    /\ json_loads(line).value.isdict
    /\ json_loads(line).value.method = method
    /\ request' = json_loads(line).value

\* method == 'crawl': await process_request(crawler, request), up to crawler.arun
ReadCrawl(line) ==
    /\ Decodes(line, "crawl")
    /\ LET url == url_param(request')
       IN IF url.raised
          THEN /\ Write(respond(request', url), Len(lines) + 1)
               /\ trace' = Append(trace, NoCalls)
               /\ UNCHANGED pending
          ELSE /\ pending' = Append(pending, [method |-> "crawl", line |-> Len(lines) + 1,
                                               request |-> request', url |-> url.value])
               /\ trace' = Append(trace, [NoCalls EXCEPT !.arun = 1])
               /\ UNCHANGED <<stdout, origin>>
    /\ UNCHANGED <<pc, acquired, released>>

\* crawler.arun returns or raises inside process_request
CrawlReturns ==
    \E i \in 1..Len(pending), answer \in EngineOutcomes :
        /\ pending[i].method = "crawl"
        /\ Write(process_request(pending[i].request, pending[i].url, answer), pending[i].line)
        /\ trace' = [trace EXCEPT ![pending[i].line].answer = answer]
        /\ pending' = RemoveAt(pending, i)
        /\ UNCHANGED <<pc, lines, request, acquired, released>>

\* method == 'fetch_headless': up to crawler.arun inside fetch_headless, which
\* opens an AsyncWebCrawler of its own
ReadFetchHeadless(line) ==
    /\ Decodes(line, "fetch_headless")
    /\ LET url == url_param(request')
       IN IF url.raised
          THEN /\ Write(respond(request', url), Len(lines) + 1)
               /\ trace' = Append(trace, NoCalls)
               /\ UNCHANGED <<pending, acquired>>
          ELSE /\ pending' = Append(pending, [method |-> "fetch_headless", line |-> Len(lines) + 1,
                                               request |-> request', url |-> url.value])
               /\ trace' = Append(trace, [NoCalls EXCEPT !.arun = 1])
               /\ acquired' = acquired + 1
               /\ UNCHANGED <<stdout, origin>>
    /\ UNCHANGED <<pc, released>>

\* variant: the crawler is closed after arun without a with block, so a
\* failing fetch leaves it open
FetchHeadlessReturnsLeaky ==
    \E i \in 1..Len(pending), answer \in EngineOutcomes :
        /\ pending[i].method = "fetch_headless"
        /\ Write(respond(request, fetch_headless(pending[i].url, answer)), pending[i].line)
        /\ trace' = [trace EXCEPT ![pending[i].line].answer = answer]
        /\ pending' = RemoveAt(pending, i)
        /\ released' = IF answer.success THEN released + 1 ELSE released
        /\ UNCHANGED <<pc, lines, request, acquired>>

\* crawler.arun returns or raises inside fetch_headless; its async with exits
\* and main prints the response with the id of main's `request`
FetchHeadlessReturns ==
    \E i \in 1..Len(pending), answer \in EngineOutcomes :
        /\ pending[i].method = "fetch_headless"
        /\ Write(respond(request, fetch_headless(pending[i].url, answer)), pending[i].line)
        /\ trace' = [trace EXCEPT ![pending[i].line].answer = answer]
        /\ pending' = RemoveAt(pending, i)
        /\ released' = released + 1
        /\ UNCHANGED <<pc, lines, request, acquired>>

\* method == 'parse_python': parse_python_ast has no suspension point
ReadParsePython(line) ==
    /\ Decodes(line, "parse_python")
    /\ LET code == code_param(request')
       IN IF code.raised
          THEN /\ Write(respond(request', code), Len(lines) + 1)
               /\ trace' = Append(trace, NoCalls)
          ELSE /\ Write(respond(request', parse_python_ast(code.value)), Len(lines) + 1)
               /\ trace' = Append(trace, [NoCalls EXCEPT !.parse = 1])
    /\ UNCHANGED <<pc, pending, acquired, released>>

\* variant: a final else branch that answers "Method not found"
ReadOtherMethodNotFound(line) ==
    /\ \E method \in Methods \ {"crawl", "fetch_headless", "parse_python"} :
           Decodes(line, method)
    /\ trace' = Append(trace, NoCalls)
    /\ Write(ErrorResponse(request_id(request'), <<"Method", "not", "found">>), Len(lines) + 1)
    /\ UNCHANGED <<pc, pending, acquired, released>>

\* any other method, or none: no branch of the if/elif chain is taken
ReadOther(line) ==
    /\ \E method \in Methods \ {"crawl", "fetch_headless", "parse_python"} :
           Decodes(line, method)
    /\ trace' = Append(trace, NoCalls)
    /\ UNCHANGED <<pc, pending, stdout, origin, acquired, released>>

Next ==
    \/ Start
    \/ \E line \in Lines : ReadUndecodable(line)
    \/ \E line \in Lines : ReadNonObject(line)
    \/ \E line \in Lines : ReadCrawl(line)
    \/ CrawlReturns
    \/ \E line \in Lines : ReadFetchHeadless(line)
    \/ FetchHeadlessReturns
    \/ \E line \in Lines : ReadParsePython(line)
    \/ \E line \in Lines : ReadOther(line)
    \/ EndOfStream

Spec == Init /\ [][Next]_vars

\* The Structure Extractor alone: a worker fed parse_python requests only,
\* one for each source text.
SourceCodes ==
    {ValidCode, NestedCode, MixedCode, CallsCode, NestedCallsCode, DecoratedCode,
     SignatureCode, StarArgsCode, PosOnlyCode, ImportsCode, RelativeImportCode,
     NoDeclCode, BrokenCode, BrokenCode2, NumberCode}

SourceLines ==
    {Object("7", "parse_python", DictParams(Absent, c)) : c \in SourceCodes}
    \cup {Object(Absent, "parse_python", DictParams(Absent, BrokenCode2))}

NextParse ==
    \/ Start
    \/ \E line \in SourceLines : ReadParsePython(line)
    \/ EndOfStream

SpecParse == Init /\ [][NextParse]_vars

TypeOK ==
    /\ pc \in {"start", "loop", "done", "crashed"}
    /\ Len(lines) <= MaxLines
    /\ Len(origin) = Len(stdout)
    /\ Len(trace) = Len(lines)
    /\ Len(pending) <= 1
    /\ released <= acquired

----------------------------------------------------------------------------
(* Vocabulary of the properties                                            *)

Recognized == {"crawl", "fetch_headless", "parse_python"}

LineNumbers == 1..Len(lines)
OutputsOf(k) == {i \in 1..Len(stdout) : origin[i] = k}
Suspended(k) == \E j \in 1..Len(pending) : pending[j].line = k

NotJSON(k) == lines[k].text \in {"garbage", "blank"}
IsObject(k) == lines[k].text = "object"
IsRequest(k) == IsObject(k) /\ lines[k].method \in Recognized
OwnId(k) == IF lines[k].id = Absent THEN None ELSE lines[k].id

\* the parameter the method of line k requires
Required(k) ==
    IF lines[k].method = "parse_python" THEN lines[k].params.code ELSE lines[k].params.url

EngineText(answer) == IF answer.raises THEN answer.exc ELSE answer.error_message

----------------------------------------------------------------------------
(* C1: every input line that is not valid JSON, wherever it stands in the  *)
(* stream, gets exactly one error Response whose id is null, and a         *)
(* recognized request on the line after it gets exactly one response of    *)
(* its own.                                                                *)
C1_MalformedLineGetsNullId ==
    \A k \in LineNumbers :
        NotJSON(k) =>
            /\ Cardinality(OutputsOf(k)) = 1
            /\ \A i \in OutputsOf(k) : IsError(stdout[i]) /\ stdout[i].id = None
            /\ (k + 1 \in LineNumbers /\ IsRequest(k + 1) /\ ~Suspended(k + 1)) =>
                   /\ Cardinality(OutputsOf(k + 1)) = 1
                   /\ \A i \in OutputsOf(k + 1) : stdout[i].id = OwnId(k + 1)

(* C2: no fault raised while handling a line ends the worker; the loop     *)
(* stops at end-of-stream only.                                            *)
C2_OnlyEndOfStreamEndsLoop == pc \in {"start", "loop", "done"}

(* C3: a decoded object whose method is none of crawl, fetch_headless,     *)
(* parse_python (or is missing) produces no output line and invokes        *)
(* neither the engine nor the parser.                                      *)
C3_UnknownMethodIsSilent ==
    \A k \in LineNumbers :
        (IsObject(k) /\ lines[k].method \notin Recognized) =>
            /\ OutputsOf(k) = {}
            /\ trace[k].arun = 0
            /\ trace[k].parse = 0

C3_Witness ==
    /\ pc = "done"
    /\ Len(lines) = 2
    /\ IsObject(1) /\ lines[1].method = "unknown_op"
    /\ IsObject(2) /\ lines[2].method = Absent
    /\ stdout = << >>

(* C4: every decoded object with a recognized method gets exactly one      *)
(* output line once handled (never two at any time): a success Response    *)
(* with result and no error, or an error Response with code -1 and no      *)
(* result.                                                                 *)
C4_ExactlyOneResponse ==
    \A k \in LineNumbers :
        IsRequest(k) =>
            /\ Cardinality(OutputsOf(k)) = (IF Suspended(k) THEN 0 ELSE 1)
            /\ \A i \in OutputsOf(k) :
                   \/ IsSuccess(stdout[i])
                   \/ IsError(stdout[i]) /\ stdout[i].error.code = -1

C4_Witness ==
    /\ pc = "done"
    /\ Len(lines) = 2
    /\ IsRequest(1) /\ lines[1].params.kind = "null"
    /\ IsRequest(2) /\ lines[2].method = "crawl"
    /\ Len(stdout) = 2
    /\ IsError(stdout[1])
    /\ IsSuccess(stdout[2])

(* C5: requests are handled one at a time: the only request that may be    *)
(* awaiting the engine is the line read last, and the responses appear in  *)
(* the order in which their lines were read.                               *)
C5_OneAtATime ==
    /\ \A j \in 1..Len(pending) : pending[j].line = Len(lines)
    /\ Len(pending) <= 1
    /\ \A i, j \in 1..Len(stdout) : i < j => origin[i] < origin[j]

C5_Witness ==
    /\ Len(lines) = 2
    /\ trace[1].arun = 1
    /\ trace[2].arun = 1
    /\ pending = << >>
    /\ origin = <<1, 2>>

(* C6: a Response written for a decoded object carries that object's own   *)
(* id (null when it has none).                                             *)
C6_IdPassedThrough ==
    \A i \in 1..Len(stdout) :
        IsObject(origin[i]) => stdout[i].id = OwnId(origin[i])

C6_Witness ==
    /\ Len(stdout) = 2
    /\ origin = <<1, 2>>
    /\ IsRequest(1) /\ lines[1].id = "7"
    /\ IsRequest(2) /\ lines[2].id = Absent
    /\ IsError(stdout[2])
    /\ stdout[1].id = "7"
    /\ stdout[2].id = None

(* C7: one engine session is acquired at startup and released at shutdown; *)
(* handling a request acquires none, so at most one session is ever open.  *)
C7_SingleSession ==
    /\ acquired <= 1
    /\ acquired - released <= 1
    /\ pc = "loop" => acquired = 1 /\ released = 0

RECURSIVE HrefList(_)
HrefList(links) ==
    IF links = << >> THEN << >>
    ELSE LET l == Head(links)
         IN (CASE l.t = "str" -> <<l.href>>
               [] l.t = "dict" -> <<IF l.href = Absent THEN "" ELSE l.href>>
               [] OTHER -> << >>) \o HrefList(Tail(links))

FetchHeadlessPages == {i \in 1..Len(stdout) :
    IsObject(origin[i]) /\ lines[origin[i]].method = "fetch_headless" /\ IsSuccess(stdout[i])}
CrawlPages == {i \in 1..Len(stdout) :
    IsObject(origin[i]) /\ lines[origin[i]].method = "crawl" /\ IsSuccess(stdout[i])}
EngineLinks(i) == trace[origin[i]].answer.links

(* C9 as stated: links of a successful fetch_headless result are the       *)
(* engine's internal links only; links of a successful crawl result are    *)
(* the internal links followed by the external links.                      *)
C9_FetchHeadlessInternalOnly ==
    /\ \A i \in FetchHeadlessPages :
           stdout[i].result.links = EngineLinks(i).internal
    /\ \A i \in CrawlPages :
           stdout[i].result.pages[1].links =
               HrefList(EngineLinks(i).internal \o EngineLinks(i).external)

(* C9 amended: links of a successful fetch_headless result are the         *)
(* engine's internal links followed by its external links, as returned;    *)
(* links of a successful crawl result are the hrefs of the internal links  *)
(* followed by those of the external links.                                *)
C9_LinksInternalThenExternal ==
    /\ \A i \in FetchHeadlessPages :
           stdout[i].result.links = EngineLinks(i).internal \o EngineLinks(i).external
    /\ \A i \in CrawlPages :
           stdout[i].result.pages[1].links =
               HrefList(EngineLinks(i).internal \o EngineLinks(i).external)

C9_Witness ==
    /\ Len(stdout) = 2
    /\ 1 \in FetchHeadlessPages
    /\ 2 \in CrawlPages
    /\ stdout[1].result.links =
           <<StrLink("/a"), OtherLink, DictLink("http://x/"), DictLink(Absent)>>
    /\ stdout[2].result.pages[1].links = <<"/a", "http://x/", "">>

(* C10: the engine fetch is invoked at most once per crawl or              *)
(* fetch_headless request, and an engine failure (success=false or a       *)
(* raised fault) is reported as exactly one error Response whose message   *)
(* contains the engine's error text.                                       *)
C10_FailureReportedOnce ==
    \A k \in LineNumbers :
        /\ trace[k].arun <= 1
        /\ (trace[k].arun = 1 /\ ~Suspended(k) /\ ~trace[k].answer.success) =>
               /\ Cardinality(OutputsOf(k)) = 1
               /\ \A i \in OutputsOf(k) :
                      /\ IsError(stdout[i])
                      /\ Contains(stdout[i].error.message, EngineText(trace[k].answer))

C10_Witness ==
    /\ Len(stdout) = 2
    /\ lines[1].method = "crawl" /\ trace[1].answer = EngineFails("HTTP-500")
    /\ lines[2].method = "fetch_headless" /\ trace[2].answer = EngineRaises("net::ERR_TIMED_OUT")
    /\ stdout[1].error.message = <<"Crawl", "failed:", "HTTP-500">>
    /\ stdout[2].error.message = <<"net::ERR_TIMED_OUT">>

----------------------------------------------------------------------------
(* C17: an empty or whitespace-only line is skipped: no JSON decode, no    *)
(* output line, and the loop goes on.                                      *)
C17_BlankLineSkipped ==
    \A k \in LineNumbers :
        lines[k].text = "blank" =>
            /\ OutputsOf(k) = {}
            /\ pc # "crashed"

(* C18: every engine session that was acquired is released on every way    *)
(* the worker or a handler ends: the only sessions open are the worker's   *)
(* while the loop runs and that of a fetch_headless still awaiting the     *)
(* engine; none is open after end-of-stream or after a fault left main.    *)
C18_SessionsReleased ==
    /\ acquired - released =
           (IF pc = "loop" THEN 1 ELSE 0)
           + Cardinality({j \in 1..Len(pending) : pending[j].method = "fetch_headless"})
    /\ pc \in {"done", "crashed"} => released = acquired

C18_Witness ==
    /\ pc = "done"
    /\ Len(lines) = 2
    /\ lines[1].method = "fetch_headless" /\ trace[1].answer = EngineRaises("net::ERR_TIMED_OUT")
    /\ lines[2].method = "fetch_headless" /\ trace[2].answer = EngineFails("HTTP-500")
    /\ acquired = 3
    /\ released = 3

\* what is observed on stdout for input line k
Observed(k) ==
    IF OutputsOf(k) = {} THEN [present |-> FALSE, id |-> None, success |-> FALSE]
    ELSE LET i == CHOOSE i \in OutputsOf(k) : TRUE
         IN [present |-> TRUE, id |-> stdout[i].id, success |-> IsSuccess(stdout[i])]

Seen(response) == [present |-> TRUE, id |-> response.id, success |-> IsSuccess(response)]
Nothing == [present |-> FALSE, id |-> None, success |-> FALSE]

\* what a worker prints for the line when it is the first line of its stream
\* and the engine gives the same answer
AsFirstLine(line, answer) ==
    LET decoded == json_loads(line)
        value == decoded.value
    IN IF ~decoded.ok THEN Nothing
       ELSE IF ~value.isdict THEN Seen(ErrorResponse(None, AttributeErrorOf("'int'")))
       ELSE IF value.method = "crawl"
       THEN (IF url_param(value).raised THEN Seen(respond(value, url_param(value)))
             ELSE Seen(process_request(value, url_param(value).value, answer)))
       ELSE IF value.method = "fetch_headless"
       THEN (IF url_param(value).raised THEN Seen(respond(value, url_param(value)))
             ELSE Seen(respond(value, fetch_headless(url_param(value).value, answer))))
       ELSE IF value.method = "parse_python"
       THEN (IF code_param(value).raised THEN Seen(respond(value, code_param(value)))
             ELSE Seen(respond(value, parse_python_ast(code_param(value).value))))
       ELSE Nothing

(* C19: the output for a line (its presence, its id, success or error)     *)
(* depends on that line and the engine's answer only: it is what the same  *)
(* line gets as the first line of a stream, whatever was received before.  *)
C19_OutputIndependentOfHistory ==
    \A k \in LineNumbers :
        ~Suspended(k) => Observed(k) = AsFirstLine(lines[k], trace[k].answer)

(* C20: a line that is valid JSON but not an object gets exactly one error *)
(* Response with id null and code -1, and the loop goes on.                *)
C20_NonObjectGetsNullId ==
    \A k \in LineNumbers :
        lines[k].text = "scalar" =>
            /\ Cardinality(OutputsOf(k)) = 1
            /\ \A i \in OutputsOf(k) :
                   /\ IsError(stdout[i])
                   /\ stdout[i].id = None
                   /\ stdout[i].error.code = -1
            /\ pc # "crashed"

C20_Witness ==
    /\ pc = "done"
    /\ Len(lines) = 2
    /\ IsRequest(1) /\ lines[1].id = "7" /\ lines[1].params.kind = "absent"
    /\ lines[2].text = "scalar"
    /\ Len(stdout) = 2
    /\ stdout[1].id = "7"
    /\ stdout[2] = ErrorResponse(None, AttributeErrorOf("'int'"))

----------------------------------------------------------------------------
(* Vocabulary of the extraction properties                                 *)

\* the success Responses to parse_python requests, and what they answer
ParseAnswers == {i \in 1..Len(stdout) :
    IsObject(origin[i]) /\ lines[origin[i]].method = "parse_python" /\ IsSuccess(stdout[i])}
CodeOf(i) == lines[origin[i]].params.code
TreeOf(i) == ast_parse(CodeOf(i)).tree
NodesOf(i) == stdout[i].result.nodes

IsDeclaration(node) == node.kind \in {"FunctionDef", "AsyncFunctionDef", "ClassDef"}
\* the function and class statements of the module's own statement list
TopLevel(tree) == SelectSeq(tree.kids, IsDeclaration)
\* the functions directly in a class body
DirectMethods(class) ==
    SelectSeq(Body(class), LAMBDA n : n.kind \in {"FunctionDef", "AsyncFunctionDef"})

(* C11: nodes has exactly one entry per top-level function or class        *)
(* statement, in source order; nested declarations and other statements    *)
(* contribute nothing.                                                     *)
C11_NodesAreTopLevelInOrder ==
    \A i \in ParseAnswers :
        LET decls == TopLevel(TreeOf(i))
        IN /\ Len(NodesOf(i)) = Len(decls)
           /\ \A j \in 1..Len(decls) :
                  /\ NodesOf(i)[j].name = decls[j].name
                  /\ NodesOf(i)[j].startLine = decls[j].lineno
                  /\ NodesOf(i)[j].type =
                         (IF decls[j].kind = "ClassDef" THEN "class" ELSE "function")

C11_Witness ==
    /\ Len(stdout) = 2
    /\ CodeOf(1) = NestedCode
    /\ CodeOf(2) = MixedCode
    /\ [j \in 1..Len(NodesOf(1)) |-> NodesOf(1)[j].name] = <<"outer", "K">>
    /\ [j \in 1..Len(NodesOf(2)) |-> NodesOf(2)[j].name] = <<"_h", "_P", "last">>

\* callee names of the call expressions of a statement list, in the order
\* they appear in the source: each node before its children, left to right
RECURSIVE CallsInSourceOrder(_)
CallsInSourceOrder(nodes) ==
    IF nodes = << >> THEN << >>
    ELSE callee(Head(nodes)) \o CallsInSourceOrder(Head(nodes).kids)
         \o CallsInSourceOrder(Tail(nodes))

(* C12: calls of a function or method is the list, in source-appearance    *)
(* order, of the simple callee names of the call expressions within its    *)
(* body, and of nothing else.                                              *)
C12_CallsInAppearanceOrder ==
    \A i \in ParseAnswers :
        LET decls == TopLevel(TreeOf(i))
        IN \A j \in 1..Len(decls) :
               IF decls[j].kind = "ClassDef"
               THEN \A m \in 1..Len(DirectMethods(decls[j])) :
                        NodesOf(i)[j].methods[m].calls =
                            CallsInSourceOrder(Body(DirectMethods(decls[j])[m]))
               ELSE NodesOf(i)[j].calls = CallsInSourceOrder(Body(decls[j]))

\* every declared parameter, in declaration order
DeclaredParameters(args) ==
    args.posonlyargs \o args.args \o args.vararg \o args.kwonlyargs \o args.kwarg

RECURSIVE CommaSeparated(_)
CommaSeparated(strs) ==
    IF strs = << >> THEN ""
    ELSE IF Len(strs) = 1 THEN strs[1]
    ELSE strs[1] \o ", " \o CommaSeparated(Tail(strs))

FullSignature(def) ==
    LET params == DeclaredParameters(def.args)
        shown == [p \in 1..Len(params) |->
                     IF params[p].annotation = None THEN params[p].arg
                     ELSE params[p].arg \o ": " \o params[p].annotation]
    IN def.name \o "(" \o CommaSeparated(shown) \o ")"
       \o (IF def.returns = None THEN "" ELSE " -> " \o def.returns)

(* C13: the signature is name(p1, ..., pn)[ -> returnType] over all the    *)
(* declared parameters (positional-only, keyword-only, *args and **kwargs  *)
(* included), each with ": type" when annotated.                           *)
C13_SignatureHasAllParameters ==
    \A i \in ParseAnswers :
        LET decls == TopLevel(TreeOf(i))
        IN \A j \in 1..Len(decls) :
               IF decls[j].kind = "ClassDef"
               THEN \A m \in 1..Len(DirectMethods(decls[j])) :
                        NodesOf(i)[j].methods[m].signature =
                            FullSignature(DirectMethods(decls[j])[m])
               ELSE NodesOf(i)[j].signature = FullSignature(decls[j])

\* every node of the tree, depth first
RECURSIVE Preorder(_)
Preorder(nodes) ==
    IF nodes = << >> THEN << >>
    ELSE <<Head(nodes)>> \o Preorder(Head(nodes).kids) \o Preorder(Tail(nodes))

\* the entries the imported names of one statement should give
ImportedNames(stmt) ==
    IF stmt.kind = "ImportFrom"
    THEN [n \in 1..Len(stmt.names) |->
             [source |-> IF stmt.module = None THEN "" ELSE stmt.module,
              imported |-> stmt.names[n].name,
              alias |-> stmt.names[n].asname]]
    ELSE IF stmt.kind = "Import"
    THEN [n \in 1..Len(stmt.names) |->
             [source |-> stmt.names[n].name,
              imported |-> IF stmt.names[n].asname = None THEN stmt.names[n].name
                           ELSE stmt.names[n].asname]]
    ELSE << >>

RECURSIVE AllImportedNames(_)
AllImportedNames(nodes) ==
    IF nodes = << >> THEN << >>
    ELSE ImportedNames(Head(nodes)) \o AllImportedNames(Tail(nodes))

SameEntry(x, y) == DOMAIN x = DOMAIN y /\ x = y
Occurrences(e, entries) == Cardinality({n \in 1..Len(entries) : SameEntry(entries[n], e)})

(* C14: imports holds one entry per imported name of every import          *)
(* statement anywhere in the tree, from-style as {source, imported, alias} *)
(* and plain as {source, imported: alias or module}; nothing is missed and *)
(* nothing is extra.  The source of a from-style import is the module name *)
(* the statement gives, empty when it gives only dots.                     *)
C14_ImportsAreAllImportedNames ==
    \A i \in ParseAnswers :
        LET expected == AllImportedNames(Preorder(<<TreeOf(i)>>))
            imports == stdout[i].result.imports
        IN /\ Len(imports) = Len(expected)
           /\ \A n \in 1..Len(expected) :
                  Occurrences(expected[n], imports) = Occurrences(expected[n], expected)

C14_Witness ==
    /\ Len(stdout) = 2
    /\ CodeOf(1) = ImportsCode
    /\ CodeOf(2) = RelativeImportCode
    /\ Len(stdout[1].result.imports) = 5
    /\ stdout[1].result.imports[1] = [source |-> "pkg.sub", imported |-> "a", alias |-> "b"]
    /\ stdout[1].result.imports[2] = [source |-> "pkg.sub", imported |-> "c", alias |-> None]
    /\ \E n \in 1..5 : SameEntry(stdout[1].result.imports[n],
                                 [source |-> "json", imported |-> "json"])
    /\ \E n \in 1..5 : SameEntry(stdout[1].result.imports[n],
                                 [source |-> "numpy", imported |-> "np"])

\* the 1-indexed line at which each unparseable source goes wrong
OffendingLine(code) == IF code = BrokenCode2 THEN 2 ELSE 1
Unparseable(k) ==
    /\ IsObject(k) /\ lines[k].method = "parse_python"
    /\ lines[k].params.kind = "dict"
    /\ lines[k].params.code \in {BrokenCode, BrokenCode2}

(* C15: a parse_python request whose code has a syntax error gets exactly  *)
(* one error Response with the request's id and the message "Python syntax *)
(* error at line <n>: <msg>", n the 1-indexed offending line, not wrapped  *)
(* as "Failed to parse ...".                                               *)
C15_SyntaxErrorReported ==
    \A k \in LineNumbers :
        Unparseable(k) =>
            /\ Cardinality(OutputsOf(k)) = 1
            /\ \A i \in OutputsOf(k) :
                   /\ IsError(stdout[i])
                   /\ stdout[i].id = OwnId(k)
                   /\ Len(stdout[i].error.message) > 6
                   /\ SubSeq(stdout[i].error.message, 1, 6) =
                          <<"Python", "syntax", "error", "at", "line",
                            ToString(OffendingLine(lines[k].params.code)) \o ":">>
                   /\ ~Contains(stdout[i].error.message, "Failed")

C15_Witness ==
    /\ Len(lines) = 2
    /\ lines[1] = Object("7", "parse_python", DictParams(Absent, BrokenCode))
    /\ lines[2] = Object(Absent, "parse_python", DictParams(Absent, BrokenCode2))
    /\ Len(stdout) = 2
    /\ stdout[1].id = "7"
    /\ stdout[2] = ErrorResponse(None, <<"Python", "syntax", "error", "at", "line", "2:",
                                         "invalid", "syntax">>)

\* the declared names that begin with an underscore
UnderscoreNames == {"_h", "_P", "_m"}

(* C16: a top-level function or class entry has exported = FALSE exactly   *)
(* when its name begins with an underscore; method entries have no         *)
(* exported flag.                                                          *)
C16_ExportedByUnderscore ==
    \A i \in ParseAnswers :
        \A j \in 1..Len(NodesOf(i)) :
            /\ NodesOf(i)[j].exported = (NodesOf(i)[j].name \notin UnderscoreNames)
            /\ NodesOf(i)[j].type = "class" =>
                   \A m \in 1..Len(NodesOf(i)[j].methods) :
                       "exported" \notin DOMAIN NodesOf(i)[j].methods[m]

C16_Witness ==
    /\ Len(stdout) = 2
    /\ CodeOf(1) = MixedCode
    /\ CodeOf(2) = NestedCode
    /\ [j \in 1..3 |-> NodesOf(1)[j].exported] = <<FALSE, FALSE, TRUE>>
    /\ NodesOf(1)[2].methods[1].name = "_m"
    /\ NodesOf(2)[2].exported

====
